---- MODULE Spec2Model ----
(***************************************************************************)
(* Model of src/src/spek-audio.cc: Audio::open (source resolution), the    *)
(* AudioFileImpl session (constructor, start, read, destructor) and the    *)
(* interval plan that start() computes.                                    *)
(*                                                                         *)
(* The media library (libavformat / libavcodec) is the environment: what   *)
(* it reports for a file is the record env, what it delivers while reading *)
(* is chosen step by step (next packet, decoder outcome).                  *)
(*                                                                         *)
(* Numbers. The session's duration is a C double; it is modelled as the    *)
(* exact rational [n, d] (seconds = n / d), and the cast to int64_t as     *)
(* truncation of the exact quotient.  Products stay far below 2^63 within  *)
(* the bounds, so the int64_t arithmetic of start() is modelled without    *)
(* wrap-around.  A normalized sample is the pair [num, den] of the raw     *)
(* value and the divisor the code divides it by.                           *)
(***************************************************************************)
EXTENDS Integers, Sequences, FiniteSets, TLC

\* ------------------------------------------------------------------ bounds
MaxStreams == 2        \* streams in a container
MaxChannels == 2       \* channels of the codec
MaxPackets == 2        \* packets a container delivers before end of stream
MaxPktSize == 2        \* bytes in a packet
MaxFrameSamples == 2   \* samples (per channel) in a decoded frame
MaxIntervals == 4      \* largest interval count passed to start()
MaxTicks == 7          \* largest stream-level duration, in time-base ticks

\* ------------------------------------------------------- program constants
AV_TIME_BASE == 1000000
INT16_MAX == 32767
INT32_MAX == 2147483647
DeviceSeconds == 60
\* AV_NOPTS_VALUE is INT64_MIN in the library: any value no real duration takes.
AV_NOPTS_VALUE == -1

\* ------------------------------------------------------------ environment
PackedFormats == {"S16", "S32", "FLT", "DBL"}
PlanarFormats == {"S16P", "S32P", "FLTP", "DBLP"}
\* U8 and U8P are formats of the library the code does not accept.
SampleFormats == PackedFormats \cup PlanarFormats \cup {"U8", "U8P"}

\* av_sample_fmt_is_planar
av_sample_fmt_is_planar(fmt) == fmt \in PlanarFormats \cup {"U8P"}

\* AVCodec::long_name of the decoder for a codec id
LongName(codec_id) == "decoder for " \o codec_id

Rational(n, d) == [n |-> n, d |-> d]
TimeBase(num, den) == [num |-> num, den |-> den]
TimeBases == {TimeBase(1, 1), TimeBase(1, 3), TimeBase(2, 5)}

\* Codec parameters (AVCodecContext) of the container's audio streams.
Codec(id, br, sr, bprs, bpcs, ch, fmt) ==
    [codec_id |-> id, bit_rate |-> br, sample_rate |-> sr,
     bits_per_raw_sample |-> bprs, bits_per_coded_sample |-> bpcs,
     channels |-> ch, sample_fmt |-> fmt]

NoCodec == Codec("NONE", 0, 0, 0, 0, 0, "U8")

\* What the library reports for one file or device.
\*   device      device_name is not empty
\*   alsa        av_find_input_format("alsa") finds the capture backend
\*   openOk      avformat_open_input succeeds
\*   probeOk     avformat_find_stream_info returns >= 0
\*   types       codec_type of each stream, in container order
\*   stream      the stream index the caller asks for
\*   hasDecoder  avcodec_find_decoder finds a decoder
\*   codec       codec parameters of the audio streams
\*   streamDur   AVStream::duration (ticks) or AV_NOPTS_VALUE
\*   fmtDur      AVFormatContext::duration (microseconds) or AV_NOPTS_VALUE
\*   time_base   AVStream::time_base
\*   open2Ok     avcodec_open2 succeeds
Env(dev, alsa, openOk, probeOk, types, stream, dec, codec, sd, fd, tb, o2) ==
    [device |-> dev, alsa |-> alsa, openOk |-> openOk, probeOk |-> probeOk,
     types |-> types, stream |-> stream, hasDecoder |-> dec, codec |-> codec,
     streamDur |-> sd, fmtDur |-> fd, time_base |-> tb, open2Ok |-> o2]

NoEnv == Env(FALSE, FALSE, FALSE, FALSE, <<>>, 0, FALSE, NoCodec,
             AV_NOPTS_VALUE, AV_NOPTS_VALUE, TimeBase(1, 1), FALSE)

SeqsUpTo(S, n) == UNION {[1..k -> S] : k \in 0..n}
StreamTypes == {"audio", "video"}


DualReportCodecs == {"AAC", "MUSEPACK8", "WMAV1", "WMAV2"}
CodecIds == DualReportCodecs \cup {"FLAC", "MP3"}

\* ------------------------------------------------------------------ state
VARIABLES
    env,                 \* what the library reports for the opened source
    pos,                 \* packets av_read_frame has delivered so far
    calls,               \* library calls made by Audio::open, in order
    closes,              \* library calls made by the destructor, in order
    pc,                  \* "none" (no session), "idle", "decode" and "fetch"
                         \* (inside read), "destroyed", "aborted", "crashed"
    error, format_context, audio_stream,
    codec_name, bit_rate, sample_rate, bits_per_sample,
    streams, channels, duration,
    channel, packet, offset, frame, buffer_len, buffer,
    frames_per_interval, error_per_interval, error_base,
    samplesArg,          \* the samples argument of the last start(), 0 if none
    op,                  \* the call made last: "none", "open", "start", "read",
                         \* "destroy"
    ret,                 \* what the last call returned, if it was a read()
    skipped,             \* the packet on which the decoder reported a hard
                         \* error during the last call, if it was a read()
    eof,                 \* av_read_frame returned < 0 during that read()
    consumer,            \* the caller's accumulation over the plan
    owed,                \* frames the decoder has produced less frames read()
                         \* has returned
    maxReturned,         \* the largest sample count a read() has returned
    spin,                \* parity of the decoder calls of the read() in
                         \* progress
    released,            \* the packets passed to av_packet_unref so far, and
                         \* whether one was passed twice or not as delivered
    wide                 \* the plan of start() on int64_t values too wide
                         \* for the integers of the other variables

infoVars == <<codec_name, bit_rate, sample_rate, bits_per_sample,
              streams, channels, duration>>
planVars == <<frames_per_interval, error_per_interval, error_base,
              samplesArg, consumer>>
decodeVars == <<packet, offset, frame, buffer_len, buffer>>
histVars == <<skipped, eof>>
worldVars == <<env, calls, closes>>
monVars == <<owed, maxReturned, spin>>
vars == <<worldVars, pos, pc, error, format_context, audio_stream, infoVars,
          channel, decodeVars, planVars, op, ret, histVars, monVars,
          released, wide>>

\* AVPacket after av_init_packet / av_packet_unref: buf 0 is the null pointer.
\* data is the pair (buf, off): the buffer the packet was read into and how far
\* packet.data has been advanced into it.
\* orig is the size the packet had when av_read_frame delivered it.
BlankPacket == [buf |-> 0, off |-> 0, size |-> 0, stream_index |-> 0, orig |-> 0]
\* AVFrame after av_frame_alloc / av_frame_unref
BlankFrame == [nb_samples |-> 0, format |-> "NONE", data |-> <<>>]
NoConsumer == [acc |-> 0, done |-> 0, total |-> 0, last |-> 0]
NoWide == [planned |-> FALSE]

Init ==
    /\ env = NoEnv
    /\ pos = 0
    /\ calls = <<>>
    /\ closes = <<>>
    /\ pc = "none"
    /\ error = "OK"
    /\ format_context = "NULL"
    /\ audio_stream = -1
    /\ codec_name = ""
    /\ bit_rate = 0
    /\ sample_rate = 0
    /\ bits_per_sample = 0
    /\ streams = 0
    /\ channels = 0
    /\ duration = Rational(0, 1)
    /\ channel = 0
    /\ packet = BlankPacket
    /\ offset = 0
    /\ frame = BlankFrame
    /\ buffer_len = 0
    /\ buffer = <<>>
    /\ frames_per_interval = 0
    /\ error_per_interval = 0
    /\ error_base = 0
    /\ op = "none"
    /\ ret = 0
    /\ samplesArg = 0
    /\ skipped = 0
    /\ eof = FALSE
    /\ consumer = NoConsumer
    /\ owed = 0
    /\ maxReturned = 0
    /\ spin = FALSE
    /\ wide = NoWide
    /\ released = [ids |-> {}, bad |-> FALSE]

\* ------------------------------------------------------------ Audio::open
\* The device backend is looked up only for a device (lines 88-95).
DeviceError(e) ==
    IF e.device /\ ~e.alsa THEN "CANNOT_OPEN_DEVICE" ELSE "OK"

\* avformat_open_input (lines 97-102): the handle stays null on failure.
OpenInput(e, err) ==
    IF err = "OK"
    THEN IF e.openOk THEN [error |-> "OK", format_context |-> "open"]
                     ELSE [error |-> "CANNOT_OPEN_FILE", format_context |-> "NULL"]
    ELSE [error |-> err, format_context |-> "NULL"]

\* Variant of ProbeError: the result of the probe is ignored.
ProbeErrorAnyProbe(e, err) ==
    IF err = "OK" /\ Len(e.types) <= 0 THEN "NO_STREAMS" ELSE err

\* The probe fails the resolution only when no stream is reported (104-110).
ProbeError(e, err) ==
    IF err = "OK" /\ ~e.probeOk /\ Len(e.types) <= 0 THEN "NO_STREAMS" ELSE err

\* The loop over the container's streams (lines 115-122); i counts from 0.
RECURSIVE SelectLoop(_, _, _, _, _)
SelectLoop(types, i, stream, audio_stream_, streams_) ==
    IF i >= Len(types)
    THEN [audio_stream |-> audio_stream_, streams |-> streams_]
    ELSE IF types[i + 1] = "audio"
         THEN SelectLoop(types, i + 1, stream,
                         IF stream = streams_ THEN i ELSE audio_stream_,
                         streams_ + 1)
         ELSE SelectLoop(types, i + 1, stream, audio_stream_, streams_)

\* Variant of SelectStream: the requested index is taken as an index into
\* the container's streams.
SelectStreamByContainerIndex(e, err) ==
    IF err = "OK"
    THEN LET sel == SelectLoop(e.types, 0, e.stream, -1, 0)
             hit == e.stream \in 0 .. (Len(e.types) - 1)
                    /\ e.types[e.stream + 1] = "audio"
         IN  [error |-> IF hit THEN "OK" ELSE "NO_AUDIO",
              audio_stream |-> IF hit THEN e.stream ELSE -1,
              streams |-> sel.streams]
    ELSE [error |-> err, audio_stream |-> -1, streams |-> 0]

\* lines 112-126
SelectStream(e, err) ==
    IF err = "OK"
    THEN LET sel == SelectLoop(e.types, 0, e.stream, -1, 0)
         IN  [error |-> IF sel.audio_stream = -1 THEN "NO_AUDIO" ELSE "OK",
              audio_stream |-> sel.audio_stream, streams |-> sel.streams]
    ELSE [error |-> err, audio_stream |-> -1, streams |-> 0]

\* avcodec_find_decoder (lines 131-138)
DecoderError(e, err) ==
    IF err = "OK" /\ ~e.hasDecoder THEN "NO_DECODER" ELSE err

\* bits per sample and bit rate (lines 149-165)
BitsPerSample(c) ==
    LET bps == IF c.bits_per_raw_sample = 0 THEN c.bits_per_coded_sample
                                            ELSE c.bits_per_raw_sample
    IN  IF c.codec_id \in DualReportCodecs THEN 0 ELSE bps

BitRate(c) == IF BitsPerSample(c) # 0 THEN 0 ELSE c.bit_rate

\* Variant of DurationOf: the container's duration is preferred.
DurationOfContainerFirst(e) ==
    IF e.fmtDur # AV_NOPTS_VALUE
    THEN [known |-> TRUE, value |-> Rational(e.fmtDur, AV_TIME_BASE)]
    ELSE IF e.streamDur # AV_NOPTS_VALUE
    THEN [known |-> TRUE,
          value |-> Rational(e.streamDur * e.time_base.num, e.time_base.den)]
    ELSE IF e.device
    THEN [known |-> TRUE, value |-> Rational(DeviceSeconds, 1)]
    ELSE [known |-> FALSE, value |-> Rational(0, 1)]

\* The duration in seconds and whether one was found (lines 168-176).
DurationOf(e) ==
    IF e.streamDur # AV_NOPTS_VALUE
    THEN [known |-> TRUE,
          value |-> Rational(e.streamDur * e.time_base.num, e.time_base.den)]
    ELSE IF e.fmtDur # AV_NOPTS_VALUE
    THEN [known |-> TRUE, value |-> Rational(e.fmtDur, AV_TIME_BASE)]
    ELSE IF e.device
    THEN [known |-> TRUE, value |-> Rational(DeviceSeconds, 1)]
    ELSE [known |-> FALSE, value |-> Rational(0, 1)]

\* The stream info block (lines 140-181), entered only without an error.
FillInfo(e, err) ==
    IF err = "OK"
    THEN LET d == DurationOf(e)
             err1 == IF d.known THEN "OK" ELSE "NO_DURATION"
             err2 == IF err1 = "OK" /\ e.codec.channels <= 0
                     THEN "NO_CHANNELS" ELSE err1
         IN  [error |-> err2,
              codec_name |-> LongName(e.codec.codec_id),
              bit_rate |-> BitRate(e.codec),
              sample_rate |-> e.codec.sample_rate,
              bits_per_sample |-> BitsPerSample(e.codec),
              channels |-> e.codec.channels,
              duration |-> d.value]
    ELSE [error |-> err, codec_name |-> "", bit_rate |-> 0, sample_rate |-> 0,
          bits_per_sample |-> 0, channels |-> 0, duration |-> Rational(0, 1)]

\* Variant of OpensDecoder: the decoder is opened whatever happened before.
OpensDecoderAlways(err) == TRUE

\* avcodec_open2 is called only without an error so far (line 183).
OpensDecoder(err) == err = "OK"

DecoderOpenError(e, err) ==
    IF OpensDecoder(err) /\ ~e.open2Ok THEN "CANNOT_OPEN_DECODER" ELSE err

\* The sample formats the code accepts (lines 187-195).
FormatError(e, err) ==
    IF err = "OK" /\ e.codec.sample_fmt \notin PackedFormats \cup PlanarFormats
    THEN "BAD_SAMPLE_FORMAT" ELSE err

\* The library calls Audio::open makes for e, in order.
OpenCalls(e) ==
    LET e1 == DeviceError(e)
        o  == OpenInput(e, e1)
        e3 == ProbeError(e, o.error)
        s  == SelectStream(e, e3)
        e5 == DecoderError(e, s.error)
        f  == FillInfo(e, e5)
    IN  (IF e.device THEN <<"av_find_input_format">> ELSE <<>>)
        \o (IF e1 = "OK" THEN <<"avformat_open_input">> ELSE <<>>)
        \o (IF o.error = "OK" THEN <<"avformat_find_stream_info">> ELSE <<>>)
        \o (IF s.error = "OK" THEN <<"avcodec_find_decoder">> ELSE <<>>)
        \o (IF OpensDecoder(f.error) THEN <<"avcodec_open2">> ELSE <<>>)
        \o (IF o.format_context # "NULL" THEN <<"av_dump_format">> ELSE <<>>)

\* Audio::open followed by the AudioFileImpl constructor.
Open(e) ==
    LET e1 == DeviceError(e)
        o  == OpenInput(e, e1)
        e3 == ProbeError(e, o.error)
        s  == SelectStream(e, e3)
        e5 == DecoderError(e, s.error)
        f  == FillInfo(e, e5)
        e8 == DecoderOpenError(e, f.error)
        e9 == FormatError(e, e8)
    IN  /\ pc = "none"
        /\ pc' = "idle"
        /\ env' = e
        /\ calls' = OpenCalls(e)
        /\ error' = e9
        /\ format_context' = o.format_context
        /\ audio_stream' = s.audio_stream
        /\ streams' = s.streams
        /\ codec_name' = f.codec_name
        /\ bit_rate' = f.bit_rate
        /\ sample_rate' = f.sample_rate
        /\ bits_per_sample' = f.bits_per_sample
        /\ channels' = f.channels
        /\ duration' = f.duration
        \* the constructor leaves channel uninitialised: until start() sets
        \* it, a read of it yields any value (see ChannelRead)
        /\ channel' = 0
        /\ packet' = BlankPacket
        /\ offset' = 0
        /\ frame' = BlankFrame
        /\ buffer_len' = 0
        /\ buffer' = <<>>
        /\ frames_per_interval' = 0
        /\ error_per_interval' = 0
        /\ error_base' = 0
        /\ op' = "open"
        /\ UNCHANGED <<closes, pos, ret, samplesArg, consumer, histVars, monVars,
                       released, wide>>


\* ----------------------------------------------------- AudioFileImpl::start
\* Variant of ChannelOutOfRange: the upper limit is off by one.
ChannelOutOfRangeOffByOne(ch, chs) == ch < 0 \/ ch > chs

\* line 258
ChannelOutOfRange(ch, chs) == ch < 0 \/ ch >= chs

\* line 264
Rate(sr, tb) == sr * tb.num

\* line 265: the double product and quotient, cast to int64_t
DurationTicks(dur, tb) == (dur.n * tb.den) \div (dur.d * tb.num)

\* Variant of ErrorBase: the numerator of the time base is taken.
ErrorBaseNum(n, tb) == n * tb.num

\* line 266
ErrorBase(n, tb) == n * tb.den

\* av_rescale_rnd(a, b, c, AV_ROUND_DOWN), for a, b >= 0 and c > 0
av_rescale_rnd(a, b, c) == (a * b) \div c

\* Variant of FramesPerInterval: rounds to nearest instead of down.
FramesPerIntervalNear(ticks, rate, eb) == (2 * ticks * rate + eb) \div (2 * eb)

\* line 267
FramesPerInterval(ticks, rate, eb) == av_rescale_rnd(ticks, rate, eb)

\* Variant of ErrorPerInterval: the remainder is not taken.
ErrorPerIntervalNoMod(ticks, rate, eb) == ticks * rate

\* line 268
ErrorPerInterval(ticks, rate, eb) == (ticks * rate) % eb

\* start() reads the selected stream of the container (line 263); that is
\* defined only for an open handle and a selected stream.
StreamValid == format_context = "open" /\ audio_stream >= 0

\* The time bases line 263 can yield: the stream's own, or anything when the
\* access is undefined.
StreamTimeBases == IF StreamValid THEN {env.time_base} ELSE TimeBases

Start(ch, n) ==
    /\ pc = "idle"
    /\ op' = "start"
    /\ ret' = 0
    /\ skipped' = 0
    /\ eof' = FALSE
    /\ channel' = ch
    /\ samplesArg' = n
    /\ consumer' = NoConsumer
    /\ \/ \* assert(false) on line 259, in a build that keeps assertions,
          \* aborts the process
          /\ ChannelOutOfRange(ch, channels)
          /\ pc' = "aborted"
          /\ UNCHANGED <<error, frames_per_interval, error_per_interval,
                         error_base>>
       \/ \* the stream access on line 263 faults
          /\ ~StreamValid
          /\ pc' = "crashed"
          /\ error' = IF ChannelOutOfRange(ch, channels)
                      THEN "NO_CHANNELS" ELSE error
          /\ UNCHANGED <<frames_per_interval, error_per_interval, error_base>>
       \/ \E tb \in StreamTimeBases :
             LET rate == Rate(sample_rate, tb)
                 ticks == DurationTicks(duration, tb)
                 eb == ErrorBase(n, tb)
             IN  /\ error' = IF ChannelOutOfRange(ch, channels)
                             THEN "NO_CHANNELS" ELSE error
                 /\ error_base' = eb
                 /\ frames_per_interval' = FramesPerInterval(ticks, rate, eb)
                 /\ error_per_interval' = ErrorPerInterval(ticks, rate, eb)
                 /\ pc' = "idle"
    /\ UNCHANGED <<worldVars, pos, format_context, audio_stream, infoVars,
                   decodeVars, monVars, released, wide>>

\* ------------------------------------------------------ AudioFileImpl::read
\* Raw sample k of plane p in a frame the decoder made from seed: every
\* position of a frame holds a different value.
Raw(seed, p, k) == seed * (10 * p + k + 1)
Seeds == {-1}

\* The frame avcodec_decode_audio4 produces: one plane per channel when the
\* format is planar, one interleaved plane otherwise.
DecodedFrame(fmt, chs, ns, seed) ==
    [nb_samples |-> ns, format |-> fmt,
     data |-> IF av_sample_fmt_is_planar(fmt)
              THEN [p \in 1..chs |-> [k \in 1..ns |-> Raw(seed, p - 1, k - 1)]]
              ELSE <<[k \in 1..(ns * chs) |-> Raw(seed, 0, k - 1)]>>]

\* lines 308-314: the plane and the index read for one sample
SampleIndex(is_planar, ch, chs, sample) ==
    IF is_planar THEN [plane |-> ch, offset |-> sample]
                 ELSE [plane |-> 0, offset |-> sample * chs]

\* lines 316-338
Normalize(fmt, raw) ==
    CASE fmt \in {"S16", "S16P"} -> [num |-> raw, den |-> INT16_MAX]
      [] fmt \in {"S32", "S32P"} -> [num |-> raw, den |-> INT32_MAX]
      [] fmt \in {"FLT", "FLTP"} -> [num |-> raw, den |-> 1]
      [] fmt \in {"DBL", "DBLP"} -> [num |-> raw, den |-> 1]
      [] OTHER -> [num |-> 0, den |-> 1]

\* What a read outside the frame's planes yields when it does not fault.
Garbage == [num |-> 0, den |-> 0]

InFrame(f, ix) ==
    /\ ix.plane + 1 \in DOMAIN f.data
    /\ ix.offset + 1 \in DOMAIN f.data[ix.plane + 1]

\* line 339, for sample s (from 0) of frame f
SampleValue(f, ch, chs, s) ==
    LET ix == SampleIndex(av_sample_fmt_is_planar(f.format), ch, chs, s)
    IN  IF InFrame(f, ix)
        THEN Normalize(f.format, f.data[ix.plane + 1][ix.offset + 1])
        ELSE Garbage

\* Variant of GrownLen: the buffer is resized to every frame.
GrownLenResized(len, samples) == samples

\* lines 295-301: the buffer grows to the frame's sample count, never shrinks
GrownLen(len, samples) == IF samples > len THEN samples ELSE len

\* lines 305-340
FilledBuffer(buf, len, f, ch, chs) ==
    [s \in 1..len |-> IF s <= f.nb_samples THEN SampleValue(f, ch, chs, s - 1)
                                          ELSE buf[s]]

\* lines 343-348: the packet is restored to what av_read_frame gave and
\* released; nothing is done for a null packet.
Released(pkt, off) ==
    IF pkt.buf # 0 THEN [packet |-> BlankPacket, offset |-> 0]
                   ELSE [packet |-> pkt, offset |-> off]

\* Variant of Restored: the packet is released as the decoder left it.
RestoredNot(pkt, off) == pkt

\* lines 344-345: data and size are set back by the bytes consumed.
Restored(pkt, off) == [pkt EXCEPT !.off = @ - off, !.size = @ + off]

\* av_packet_unref(p), recorded: p is released; the record turns bad when p
\* was released before or is not as av_read_frame delivered it.
Unref(r, p) ==
    [ids |-> r.ids \cup {p.buf},
     bad |-> r.bad \/ p.buf \in r.ids \/ p.off # 0 \/ p.size # p.orig]

\* The record after lines 343-348 ran on packet pkt.
AfterRelease(r, pkt, off) ==
    IF pkt.buf # 0 THEN Unref(r, Restored(pkt, off)) ELSE r

\* The values a read of this->channel yields.
ChannelRead == IF samplesArg # 0 THEN {channel} ELSE -1 .. (MaxChannels - 1)

\* Top of the for (;;) loop with packet pkt: the while loop is entered when
\* bytes remain, otherwise the packet is released and a new one is fetched.
LoopTop(pkt, off) ==
    IF pkt.size > 0
    THEN /\ pc' = "decode"
         /\ packet' = pkt
         /\ offset' = off
         /\ UNCHANGED released
    ELSE /\ pc' = "fetch"
         /\ packet' = Released(pkt, off).packet
         /\ offset' = Released(pkt, off).offset
         /\ released' = AfterRelease(released, pkt, off)

\* Variant of ReadRefused: the error code is not looked at.
ReadRefusedNever(err) == FALSE

\* Variant of ReadRefused: the test is inverted.
ReadRefusedInverted(err) == err = "OK"

\* line 273
ReadRefused(err) == err # "OK"

\* read() is called: lines 273-275, then the loop is entered.
ReadEnter ==
    /\ pc = "idle"
    /\ op' = "read"
    /\ skipped' = 0
    /\ eof' = FALSE
    /\ spin' = FALSE
    /\ UNCHANGED <<owed, maxReturned, wide>>
    /\ IF ReadRefused(error)
       THEN /\ ret' = -1
            /\ pc' = "idle"
            /\ UNCHANGED <<packet, offset, released>>
       ELSE /\ LoopTop(packet, offset)
            /\ UNCHANGED ret
    /\ UNCHANGED <<worldVars, pos, error, format_context, audio_stream,
                   infoVars, channel, frame, buffer_len, buffer, planVars>>

\* Variant of AfterDecodeError: the loop goes on with the same packet.
AfterDecodeErrorRetry(pkt, off) ==
    /\ pc' = "decode"
    /\ packet' = pkt
    /\ offset' = off
    /\ UNCHANGED released

\* What the loop does after a hard decode error (line 283-286).
AfterDecodeError(pkt, off) ==
    /\ pc' = "fetch"
    /\ packet' = Released(pkt, off).packet
    /\ offset' = Released(pkt, off).offset
    /\ released' = AfterRelease(released, pkt, off)

\* Variant of ReturnFrame: the loop goes on to the next frame instead.
ReturnFrameContinue(ns) ==
    /\ pc' = "decode"
    /\ UNCHANGED ret

\* line 341: the frame's sample count is returned.
ReturnFrame(ns) ==
    /\ pc' = "idle"
    /\ ret' = ns

\* One pass of the while loop (lines 278-342): one call of the decoder, which
\* reports an error (len < 0) or consumes len bytes and may produce a frame.
DecodeStep ==
    /\ pc = "decode"
    /\ \E len \in -1 .. packet.size, got \in BOOLEAN :
          IF len < 0
          THEN /\ AfterDecodeError(packet, offset)
               /\ frame' = BlankFrame
               /\ skipped' = packet.buf
               /\ UNCHANGED <<buffer_len, buffer, ret>>
          ELSE LET pkt == [packet EXCEPT !.off = @ + len, !.size = @ - len]
                   off == offset + len
               IN  IF ~got
                   THEN /\ LoopTop(pkt, off)
                        /\ frame' = BlankFrame
                        /\ UNCHANGED <<buffer_len, buffer, ret, skipped>>
                   ELSE \E ns \in 1..MaxFrameSamples, seed \in Seeds, ch \in ChannelRead :
                          LET f == DecodedFrame(env.codec.sample_fmt, channels, ns, seed)
                              valid == \/ ~av_sample_fmt_is_planar(f.format)
                                       \/ ~ChannelOutOfRange(ch, channels)
                          IN  /\ frame' = f
                              /\ packet' = pkt
                              /\ offset' = off
                              /\ buffer_len' = GrownLen(buffer_len, ns)
                              /\ buffer' = FilledBuffer(buffer, GrownLen(buffer_len, ns),
                                                        f, ch, channels)
                              /\ UNCHANGED <<skipped, released>>
                              /\ \/ ReturnFrame(ns)
                                 \/ \* reading a plane the frame does not have faults
                                    /\ ~valid
                                    /\ pc' = "crashed"
                                    /\ UNCHANGED ret
    /\ LET made == IF frame'.nb_samples > 0 THEN 1 ELSE 0
           returned == IF pc' = "idle" THEN 1 ELSE 0
       IN  /\ owed' = owed + made - returned
           /\ maxReturned' = IF pc' = "idle" /\ ret' > maxReturned
                             THEN ret' ELSE maxReturned
    /\ spin' = IF pc' = "decode" THEN ~spin ELSE FALSE
    /\ UNCHANGED <<worldVars, pos, error, format_context, audio_stream,
                   infoVars, channel, planVars, op, eof, wide>>

\* One call of av_read_frame (lines 350-360): end of stream or an I/O error,
\* or the next packet, which is kept when it belongs to the selected stream.
FetchStep ==
    /\ pc = "fetch"
    /\ \/ /\ packet' = BlankPacket
          /\ eof' = TRUE
          /\ ret' = 0
          /\ pc' = "idle"
          /\ UNCHANGED <<pos, offset, released>>
       \/ /\ pos < MaxPackets
          /\ pos' = pos + 1
          /\ \E si \in 0 .. (Len(env.types) - 1), sz \in 0 .. MaxPktSize :
                LET pkt == [buf |-> pos + 1, off |-> 0, size |-> sz,
                            stream_index |-> si, orig |-> sz]
                IN  IF si = audio_stream
                    THEN LoopTop(pkt, offset)
                    ELSE /\ packet' = BlankPacket
                         /\ released' = Unref(released, pkt)
                         /\ pc' = "fetch"
                         /\ UNCHANGED offset
          /\ UNCHANGED <<eof, ret>>
    /\ UNCHANGED <<monVars, wide>>
    /\ UNCHANGED <<worldVars, error, format_context, audio_stream, infoVars,
                   channel, frame, buffer_len, buffer, planVars, op,
                   skipped>>

\* -------------------------------------------- AudioFileImpl::~AudioFileImpl
\* Variant of DestructorCalls: the container is closed before the codec.
DestructorCallsContainerFirst ==
    (IF packet.buf # 0 THEN <<"av_packet_unref">> ELSE <<>>)
    \o (IF format_context # "NULL"
        THEN <<"avformat_close_input">>
             \o (IF audio_stream >= 0 THEN <<"avcodec_close">> ELSE <<>>)
        ELSE <<>>)

\* lines 238-252: the library calls of the destructor, in order
DestructorCalls ==
    (IF packet.buf # 0 THEN <<"av_packet_unref">> ELSE <<>>)
    \o (IF format_context # "NULL"
        THEN (IF audio_stream >= 0 THEN <<"avcodec_close">> ELSE <<>>)
             \o <<"avformat_close_input">>
        ELSE <<>>)

Destroy ==
    /\ pc = "idle"
    /\ pc' = "destroyed"
    /\ op' = "destroy"
    /\ closes' = DestructorCalls
    /\ buffer' = <<>>
    /\ frame' = BlankFrame
    /\ packet' = Released(packet, offset).packet
    /\ offset' = Released(packet, offset).offset
    /\ released' = AfterRelease(released, packet, offset)
    /\ format_context' = "NULL"
    /\ UNCHANGED <<env, calls, pos, error, audio_stream, infoVars,
                   channel, buffer_len, planVars, ret, histVars, monVars, wide>>

\* ------------------------------------------- the caller's use of the plan
\* One interval of the accumulation: the interval takes frames_per_interval
\* frames, error_per_interval is added to the accumulator, and when the
\* accumulator reaches error_base the interval takes one more frame and
\* error_base is subtracted.
Interval ==
    /\ pc = "idle"
    /\ op = "start"
    /\ consumer.done < samplesArg
    /\ LET acc == consumer.acc + error_per_interval
           extra == acc >= error_base
           taken == frames_per_interval + (IF extra THEN 1 ELSE 0)
       IN  consumer' = [acc |-> IF extra THEN acc - error_base ELSE acc,
                        done |-> consumer.done + 1,
                        total |-> consumer.total + taken,
                        last |-> taken]
    /\ UNCHANGED <<worldVars, pos, pc, error, format_context, audio_stream,
                   infoVars, channel, decodeVars, frames_per_interval,
                   error_per_interval, error_base, samplesArg, op, ret,
                   histVars, monVars, released, wide>>


\* --------------------------------------------------------- specifications
\* Sources for the resolution: every combination of the outcomes the checks
\* of Audio::open depend on.  A source the library cannot open has no
\* container to report on (NoEnv's values).
OpenCodecs ==
    {Codec(id, 128000, 44100, bprs, bpcs, 2, "S16") :
        id \in CodecIds, bprs \in {0, 16}, bpcs \in {0, 24}}
    \cup {Codec("FLAC", 0, 44100, 16, 0, 2, fmt) : fmt \in SampleFormats}
    \cup {Codec("FLAC", 0, 44100, 16, 0, ch, "S16") : ch \in -1 .. MaxChannels}

OpenTimeBases == {TimeBase(2, 5)}

UnopenedEnvs ==
    {[NoEnv EXCEPT !.device = dev, !.alsa = alsa, !.stream = st] :
        dev \in BOOLEAN, alsa \in BOOLEAN, st \in {0}}

ContainerEnvs ==
    {Env(dev, TRUE, TRUE, probeOk, types, st, dec, codec, sd, fd, tb, o2) :
        dev \in BOOLEAN, probeOk \in BOOLEAN,
        types \in SeqsUpTo(StreamTypes, MaxStreams), st \in -1 .. MaxStreams,
        dec \in BOOLEAN, codec \in OpenCodecs,
        sd \in {AV_NOPTS_VALUE, 5}, fd \in {AV_NOPTS_VALUE, 2500000},
        tb \in OpenTimeBases, o2 \in BOOLEAN}

OpenEnvs == UnopenedEnvs \cup ContainerEnvs

OpenAny == pc = "none" /\ \E e \in OpenEnvs : Open(e)

NextOpen == OpenAny

SpecOpen == Init /\ [][NextOpen]_vars

\* Sessions for the interval plan: one audio stream that resolves, with the
\* sample rate, time base and duration drawn from small ranges.
MaxRate == 3
MaxNum == 2
MaxDen == 5
PlanMicros == {0, 1500000, 2333333}

PlanEnvs ==
    {Env(FALSE, TRUE, TRUE, TRUE, <<"audio">>, 0, TRUE,
         Codec("FLAC", 0, sr, 16, 0, 1, "S16"), d[1], d[2],
         TimeBase(num, den), TRUE) :
        sr \in 1 .. MaxRate, num \in 1 .. MaxNum, den \in 1 .. MaxDen,
        d \in ((0 .. MaxTicks) \X {AV_NOPTS_VALUE})
              \cup ({AV_NOPTS_VALUE} \X PlanMicros)}

OpenPlan == pc = "none" /\ \E e \in PlanEnvs : Open(e)

StartPlan == \E n \in 1 .. MaxIntervals : Start(0, n)

NextPlan == OpenPlan \/ StartPlan \/ Interval

SpecPlan == Init /\ [][NextPlan]_vars

\* Sessions for the life of a session: a file with a video and an audio
\* stream in every accepted sample format, and files whose resolution fails.
LifeCodec(ch, fmt) == Codec("FLAC", 0, 3, 16, 0, ch, fmt)

LifeEnv(types, codec, sd) ==
    Env(FALSE, TRUE, TRUE, TRUE, types, 0, TRUE, codec, sd, AV_NOPTS_VALUE,
        TimeBase(1, 3), TRUE)

LifeEnvs ==
    {LifeEnv(<<"video", "audio">>, LifeCodec(2, fmt), 5) :
        fmt \in PackedFormats \cup PlanarFormats}
    \cup {LifeEnv(<<"video", "audio">>, LifeCodec(1, "S16"), 5)}
    \cup {[NoEnv EXCEPT !.alsa = TRUE],
          LifeEnv(<<"video">>, LifeCodec(2, "S16"), 5),
          LifeEnv(<<"audio">>, LifeCodec(2, "S16"), AV_NOPTS_VALUE),
          LifeEnv(<<"audio">>, LifeCodec(2, "U8"), 5)}

OpenLife == pc = "none" /\ \E e \in LifeEnvs : Open(e)

StartLife == \E ch \in -1 .. MaxChannels : Start(ch, 2)

Next == OpenLife \/ StartLife \/ ReadEnter \/ DecodeStep \/ FetchStep \/ Destroy

Spec == Init /\ [][Next]_vars

\* read() runs in the caller's thread, which goes on executing: a pass of the
\* while loop or a call of av_read_frame that is due is eventually made.
SpecLive == Spec /\ WF_vars(DecodeStep) /\ WF_vars(FetchStep)


\* ------------------------------------------- start() at the width of int64_t
\* An int64_t is modelled as its Int64Bytes bytes, least significant first,
\* in two's complement; the exact product of two of them has twice as many.
Int64Bytes == 8
Byte == 256

\* The int64_t with the value of the non-negative int n
Word(n) ==
    [i \in 1 .. Int64Bytes |-> IF i <= 4 THEN (n \div Byte ^ (i - 1)) % Byte ELSE 0]

\* w * 256^j, for values that stay below 2^63
ShiftBytes(w, j) ==
    [i \in 1 .. Int64Bytes |-> IF i > j THEN w[i - j] ELSE 0]

\* Carries are propagated through the column sums cols, from column k on;
\* the carry out of the last column is dropped.
RECURSIVE Carried(_, _, _)
Carried(cols, k, carry) ==
    IF k > Len(cols)
    THEN <<>>
    ELSE <<(cols[k] + carry) % Byte>>
         \o Carried(cols, k + 1, (cols[k] + carry) \div Byte)

\* Sum of the byte products a[i] * b[j] with i + j = k + 1, from i on
RECURSIVE ColumnSum(_, _, _, _)
ColumnSum(a, b, k, i) ==
    IF i > Len(a)
    THEN 0
    ELSE (IF k + 1 - i \in 1 .. Len(b) THEN a[i] * b[k + 1 - i] ELSE 0)
         + ColumnSum(a, b, k, i + 1)

\* The exact product of a and b
MulFull(a, b) ==
    Carried([k \in 1 .. (Len(a) + Len(b)) |-> ColumnSum(a, b, k, 1)], 1, 0)

\* w + n for a small n >= 0, in the width of w
AddSmall(w, n) ==
    Carried([i \in 1 .. Len(w) |-> w[i] + (IF i = 1 THEN n ELSE 0)], 1, 0)

\* Division of the non-negative w by a small c > 0, a byte at a time from the
\* most significant: the remainder left by the bytes from i up
RECURSIVE RemFrom(_, _, _)
RemFrom(w, c, i) ==
    IF i > Len(w) THEN 0 ELSE (RemFrom(w, c, i + 1) * Byte + w[i]) % c

Div(w, c) ==
    [i \in 1 .. Len(w) |-> (RemFrom(w, c, i + 1) * Byte + w[i]) \div c]

Mod(w, c) == RemFrom(w, c, 1)

\* The int64_t an exact value p is converted to: the low bytes
Low(p) == SubSeq(p, 1, Int64Bytes)

\* p is not the value of an int64_t
Overflows(p) ==
    \/ p[Int64Bytes] >= Byte \div 2
    \/ \E i \in (Int64Bytes + 1) .. Len(p) : p[i] # 0

Negative(w) == w[Int64Bytes] >= Byte \div 2

\* -w in two's complement
Neg(w) == AddSmall([i \in 1 .. Len(w) |-> Byte - 1 - w[i]], 1)

\* The % of C++ on an int64_t w and c > 0: the quotient is truncated towards
\* zero, so the remainder has the sign of w.
Remainder(w, c) == IF Negative(w) THEN 0 - Mod(Neg(w), c) ELSE Mod(w, c)

\* line 268: the product is formed in int64_t before the remainder is taken.
WideErrorPerInterval(ticks, rate, eb) == Remainder(Low(MulFull(ticks, rate)), eb)

\* line 267: av_rescale_rnd forms the product in 128 bits.
WideFramesPerInterval(ticks, rate, eb) == Low(Div(MulFull(ticks, rate), eb))

\* Lines 264-268 for a duration of ticks units of the time base, rate and
\* error_base eb.  A signed product that overflows is undefined: it wraps, or
\* the build traps on it.
WideStart(ticks, rate, eb) ==
    /\ pc = "none"
    /\ ~wide.planned
    /\ ~Overflows(Div(MulFull(ticks, rate), eb))
    /\ \E trap \in IF Overflows(MulFull(ticks, rate)) THEN BOOLEAN ELSE {FALSE} :
          wide' = [planned |-> TRUE,
                   trapped |-> trap,
                   ticks |-> ticks,
                   rate |-> rate,
                   error_base |-> eb,
                   frames_per_interval |-> WideFramesPerInterval(ticks, rate, eb),
                   error_per_interval |->
                       IF trap THEN 0 ELSE WideErrorPerInterval(ticks, rate, eb)]
    /\ UNCHANGED <<worldVars, pos, pc, error, format_context, audio_stream,
                   infoVars, channel, decodeVars, planVars, op, ret, histVars,
                   monVars, released>>

\* Durations up to MaxWideFactor * 256^MaxWideShift ticks, and the rates and
\* error bases of common sample rates and time bases.
MaxWideFactor == 5
MaxWideShift == 6
WideRates == {1, 3, 44100, 48000}
WideErrorBases == {1, 7, 1000, 90000}

StartWide ==
    \E m \in 1 .. MaxWideFactor, j \in 0 .. MaxWideShift,
       r \in WideRates, eb \in WideErrorBases :
        WideStart(ShiftBytes(Word(m), j), Word(r), eb)

NextWide == StartWide

SpecWide == Init /\ [][NextWide]_vars


\* ------------------------------------------------------- the interval plan
\* The ticks and the rate start() derives for the session.
PlanTicks == DurationTicks(duration, env.time_base)
PlanRate == sample_rate * env.time_base.num
\* floor(durationTicks * rate / timeBaseDen)
TotalFrames == (PlanTicks * PlanRate) \div env.time_base.den
Planned == pc = "idle" /\ op = "start" /\ samplesArg >= 1

\* C1: once the accumulation has run over all intervalCount intervals of the
\* plan start() computed, the frames taken sum to
\* floor(durationTicks * rate / timeBaseDen) exactly.
C1_SumIsTotal ==
    (Planned /\ consumer.done = samplesArg) => consumer.total = TotalFrames

\* An accumulation over several intervals that is complete and gave some but
\* not all intervals an extra frame.
C1_Witness ==
    /\ Planned
    /\ samplesArg >= 3
    /\ consumer.done = samplesArg
    /\ consumer.total > samplesArg * frames_per_interval
    /\ consumer.total < samplesArg * (frames_per_interval + 1)
    /\ frames_per_interval > 0

\* C2 as stated: with intervalCount = 1 the plan has framesPerInterval equal
\* to the total frame count and errorPerInterval equal to 0.
C2_Original ==
    (Planned /\ samplesArg = 1) =>
        /\ frames_per_interval = TotalFrames
        /\ error_per_interval = 0

\* C2 as amended: with intervalCount = 1 the plan has framesPerInterval equal
\* to the total frame count and errorPerInterval equal to
\* (durationTicks * rate) mod timeBaseDen, which is 0 exactly when
\* timeBaseDen divides durationTicks * rate.
C2_SingleInterval ==
    (Planned /\ samplesArg = 1) =>
        /\ frames_per_interval = TotalFrames
        /\ error_per_interval = (PlanTicks * PlanRate) % env.time_base.den
        /\ error_per_interval = 0 <=>
             (\E q \in 0 .. (PlanTicks * PlanRate) :
                 q * env.time_base.den = PlanTicks * PlanRate)

\* A plan for one interval whose remainder is not 0.
C2_Witness ==
    /\ Planned
    /\ samplesArg = 1
    /\ frames_per_interval > 0
    /\ error_per_interval > 0

\* C3: the plan has 0 <= errorPerInterval < errorBase; the accumulator is in
\* [0, errorBase) after every interval, and every interval takes
\* framesPerInterval or framesPerInterval + 1 frames.
C3_Remainder ==
    Planned =>
        /\ 0 <= error_per_interval
        /\ error_per_interval < error_base
        /\ 0 <= consumer.acc
        /\ consumer.acc < error_base
        /\ consumer.done > 0 =>
             consumer.last \in {frames_per_interval, frames_per_interval + 1}

\* After two intervals or more, the last one took an extra frame and an
\* earlier one did not.
C3_Witness ==
    /\ Planned
    /\ consumer.done >= 2
    /\ consumer.last = frames_per_interval + 1
    /\ consumer.total < consumer.done * (frames_per_interval + 1)
    /\ consumer.acc > 0


\* ----------------------------------------------------------- the resolution
\* The checks of the resolution in their order, what makes each fail, the
\* code it fails with and the library call it makes.
Checks == <<"device", "file", "probe", "audio", "decoder", "duration",
            "channels", "open", "format">>

AudioStreams(e) == {i \in DOMAIN e.types : e.types[i] = "audio"}

CheckFails(e, c) ==
    CASE c = "device"   -> e.device /\ ~e.alsa
      [] c = "file"     -> ~e.openOk
      [] c = "probe"    -> ~e.probeOk /\ Len(e.types) = 0
      [] c = "audio"    -> e.stream < 0 \/ e.stream >= Cardinality(AudioStreams(e))
      [] c = "decoder"  -> ~e.hasDecoder
      [] c = "duration" -> /\ e.streamDur = AV_NOPTS_VALUE
                           /\ e.fmtDur = AV_NOPTS_VALUE
                           /\ ~e.device
      [] c = "channels" -> e.codec.channels <= 0
      [] c = "open"     -> ~e.open2Ok
      [] c = "format"   -> e.codec.sample_fmt \notin PackedFormats \cup PlanarFormats

CheckCode(c) ==
    CASE c = "device"   -> "CANNOT_OPEN_DEVICE"
      [] c = "file"     -> "CANNOT_OPEN_FILE"
      [] c = "probe"    -> "NO_STREAMS"
      [] c = "audio"    -> "NO_AUDIO"
      [] c = "decoder"  -> "NO_DECODER"
      [] c = "duration" -> "NO_DURATION"
      [] c = "channels" -> "NO_CHANNELS"
      [] c = "open"     -> "CANNOT_OPEN_DECODER"
      [] c = "format"   -> "BAD_SAMPLE_FORMAT"

CheckCall(c) ==
    CASE c = "device"   -> "av_find_input_format"
      [] c = "file"     -> "avformat_open_input"
      [] c = "probe"    -> "avformat_find_stream_info"
      [] c = "decoder"  -> "avcodec_find_decoder"
      [] c = "open"     -> "avcodec_open2"
      [] OTHER          -> "none"

\* The first check that fails for e, 0 when none does.
FirstFailing(e) ==
    LET failing == {k \in DOMAIN Checks : CheckFails(e, Checks[k])}
    IN  IF failing = {} THEN 0
        ELSE CHOOSE k \in failing : \A j \in failing : k <= j

CallsMade == {calls[i] : i \in DOMAIN calls}

\* C6: open returns a session whose error is the code of the first check, in
\* the order device, file, probe, audio stream, decoder, duration, channels,
\* decoder open, sample format, that fails (OK when none fails), and it makes
\* no library call of a later check.
C6_FirstFailureWins ==
    op = "open" =>
        LET k == FirstFailing(env)
        IN  /\ pc = "idle"
            /\ error = IF k = 0 THEN "OK" ELSE CheckCode(Checks[k])
            /\ \A j \in DOMAIN Checks :
                 (k # 0 /\ j > k) => CheckCall(Checks[j]) \notin CallsMade

\* A resolution that fails on the duration for a source whose channel count,
\* decoder open and sample format would fail too.
C6_Witness ==
    /\ op = "open"
    /\ error = "NO_DURATION"
    /\ env.codec.channels <= 0
    /\ ~env.open2Ok
    /\ "avcodec_find_decoder" \in CallsMade
    /\ "avcodec_open2" \notin CallsMade

InfoDefaults ==
    /\ codec_name = ""
    /\ bit_rate = 0
    /\ sample_rate = 0
    /\ bits_per_sample = 0
    /\ channels = 0
    /\ duration = Rational(0, 1)

\* The source was opened and its container reports no stream.
NoStreamsReported == op = "open" /\ format_context = "open" /\ Len(env.types) = 0

\* C7 as stated: opening a file whose container reports 0 streams fails with
\* NO_STREAMS and leaves the stream info at its defaults.
C7_Original == NoStreamsReported => (error = "NO_STREAMS" /\ InfoDefaults)

\* C7 as amended: opening a file whose container reports 0 streams fails with
\* NO_STREAMS when the probe fails and with NO_AUDIO when the probe succeeds;
\* in both cases the stream info stays at its defaults.
C7_NoStreams ==
    NoStreamsReported =>
        /\ error = IF env.probeOk THEN "NO_AUDIO" ELSE "NO_STREAMS"
        /\ InfoDefaults

\* A failed probe of a container without streams.
C7_Witness == NoStreamsReported /\ ~env.probeOk /\ error = "NO_STREAMS"

\* The resolution got as far as a decoder for the selected stream.
HasDecoder ==
    /\ op = "open"
    /\ format_context = "open"
    /\ audio_stream >= 0
    /\ env.hasDecoder

\* The bit rate of the stream info: that of the codec, unless the codec
\* reports bits per sample and is not one of the codecs that report both.
InfoBitRate(c) ==
    IF /\ c.codec_id \notin DualReportCodecs
       /\ (c.bits_per_raw_sample # 0 \/ c.bits_per_coded_sample # 0)
    THEN 0 ELSE c.bit_rate

\* C8: with a decoder but no stream duration, no container duration and no
\* device, open fails with NO_DURATION and the info has the codec name, bit
\* rate and channel count of the codec; otherwise NO_DURATION is not raised
\* and the duration is the stream's, else the container's, else 60 seconds.
C8_Duration ==
    HasDecoder =>
        IF env.streamDur # AV_NOPTS_VALUE
        THEN /\ error # "NO_DURATION"
             /\ duration = Rational(env.streamDur * env.time_base.num,
                                    env.time_base.den)
        ELSE IF env.fmtDur # AV_NOPTS_VALUE
        THEN /\ error # "NO_DURATION"
             /\ duration = Rational(env.fmtDur, AV_TIME_BASE)
        ELSE IF env.device
        THEN /\ error # "NO_DURATION"
             /\ duration = Rational(DeviceSeconds, 1)
        ELSE /\ error = "NO_DURATION"
             /\ codec_name = LongName(env.codec.codec_id)
             /\ bit_rate = InfoBitRate(env.codec)
             /\ channels = env.codec.channels

\* A resolution that fails on the duration with the info filled in.
C8_Witness ==
    /\ HasDecoder
    /\ error = "NO_DURATION"
    /\ codec_name # ""
    /\ bit_rate > 0
    /\ channels > 0


\* ------------------------------------------------------- the sample reader
\* C4: a read() on a session whose error is not OK returns -1 at once and
\* leaves the packet, the consumed offset, the frame, the sample buffer, the
\* container handle and the container's position as they are; and an error
\* that is not OK never becomes OK again.
C4_ErrorIsTerminal ==
    [][/\ (pc = "idle" /\ op' = "read" /\ error # "OK") =>
            /\ pc' = "idle"
            /\ ret' = -1
            /\ UNCHANGED <<packet, offset, frame, buffer_len, buffer,
                           format_context, pos>>
       /\ error # "OK" => error' # "OK"]_vars

\* A read() that returned -1 on a session that holds a packet it read before
\* the error was set.
C4_Witness ==
    /\ pc = "idle"
    /\ op = "read"
    /\ error # "OK"
    /\ ret = -1
    /\ packet.buf # 0
    /\ pos > 0

\* The resolution of the session succeeded.
Resolved == pc # "none" /\ FirstFailing(env) = 0

C9_BadPacketSkipped ==
    /\ skipped # 0 => packet.buf # skipped
    /\ pc \in {"decode", "fetch"} => error = "OK"
    /\ (pc = "idle" /\ op = "read" /\ skipped # 0) =>
          /\ error = "OK"
          /\ ret >= 0
          /\ ret = 0 => eof
          /\ ret > 0 => /\ ret = frame.nb_samples
                        /\ packet.buf > skipped
                        /\ packet.stream_index = audio_stream
                        /\ ~eof

\* A read() that met a hard error and returned a frame of a later packet.
C9_Witness ==
    /\ pc = "idle"
    /\ op = "read"
    /\ skipped # 0
    /\ ret > 0
    /\ ret = frame.nb_samples
    /\ packet.buf = skipped + 1

\* The raw sample of channel ch at index s (from 0) of frame f.
ChannelSample(f, ch, chs, s) ==
    IF av_sample_fmt_is_planar(f.format)
    THEN f.data[ch + 1][s + 1]
    ELSE f.data[1][s * chs + ch + 1]

\* C10: after a read() that returned n > 0, buffer[s] for s in 0..n-1 is the
\* normalized raw sample at plane[channel][s] of a planar frame and at index
\* s * channelCount + channel of the single plane of a packed frame, for the
\* channel start() selected.
C10_SelectedChannel ==
    (pc = "idle" /\ op = "read" /\ ret > 0 /\ samplesArg # 0) =>
        \A s \in 0 .. (ret - 1) :
            buffer[s + 1] =
                Normalize(frame.format, ChannelSample(frame, channel, channels, s))


\* C11: a read() on a session without an error returns the sample count of
\* the frame just decoded, which is positive, or 0, and 0 only when
\* av_read_frame reported the end of the stream or an error; it does not
\* return -1, and no step of a read() changes the error.
C11_ReadResult ==
    [][op' = "read" =>
          /\ error' = error
          /\ (pc' = "idle" /\ error = "OK") =>
                \/ ret' > 0 /\ ret' = frame'.nb_samples /\ ~eof'
                \/ ret' = 0 /\ eof']_vars

\* A read() that returned 0 at the end of the stream after an earlier one
\* returned a frame.
C11_Witness ==
    /\ pc = "idle"
    /\ op = "read"
    /\ error = "OK"
    /\ ret = 0
    /\ eof
    /\ pos > 0
    /\ buffer_len > 0

\* C12: every frame the decoder produces is returned by read() in the step
\* that produced it, so the frames returned are the frames produced, in the
\* same order, none left out and none twice; the decoder is only given the
\* packet av_read_frame delivered last, which belongs to the selected
\* stream; and av_read_frame is called only when no bytes of a packet remain.
C12_FramesInOrder ==
    /\ [](pc # "crashed" => owed = 0)
    /\ [](pc = "decode" => /\ packet.buf = pos
                           /\ packet.stream_index = audio_stream)
    /\ [][/\ pos' # pos => /\ pos' = pos + 1
                           /\ packet.size = 0
                           /\ packet.buf = 0
          /\ (pc' = "idle" /\ ret' > 0 /\ op' = "read" /\ pc # "idle") =>
                /\ pc = "decode"
                /\ frame'.nb_samples = ret'
                /\ packet'.buf = packet.buf]_vars

\* The second packet's frame is returned, bytes of the packet remaining,
\* after a larger frame was returned before.
C12_Witness ==
    /\ pc = "idle"
    /\ op = "read"
    /\ ret > 0
    /\ pos = 2
    /\ packet.buf = 2
    /\ packet.size > 0
    /\ buffer_len > ret

\* C13: for a duration, a rate and an error base that each fit int64_t,
\* frames_per_interval * error_base + error_per_interval is the exact product
\* of the duration and the rate, also when that product does not fit 64 bits.
C13_ExactPlan ==
    wide.planned =>
        /\ ~wide.trapped
        /\ LET product == MulFull(wide.ticks, wide.rate)
               whole == MulFull(wide.frames_per_interval, Word(wide.error_base))
           IN  IF wide.error_per_interval >= 0
               THEN AddSmall(whole, wide.error_per_interval) = product
               ELSE whole = AddSmall(product, 0 - wide.error_per_interval)

\* C14: the duration in ticks that start() plans with is the integer nearest
\* to duration * time_base.den / time_base.num.
NearestTicks ==
    (2 * duration.n * env.time_base.den + duration.d * env.time_base.num)
        \div (2 * duration.d * env.time_base.num)

C14_NearestTicks ==
    Planned =>
        frames_per_interval * error_base + error_per_interval
            = NearestTicks * PlanRate

\* C15: a resolution that gets as far as the stream selection reports the
\* number of audio streams of the container; it selects the container index
\* of the audio stream that has env.stream audio streams before it; and it
\* fails with NO_AUDIO exactly when the requested index is negative or the
\* container has fewer than env.stream + 1 audio streams.
SelectionReached ==
    /\ op = "open"
    /\ error \notin {"CANNOT_OPEN_DEVICE", "CANNOT_OPEN_FILE", "NO_STREAMS"}

AudioBefore(e, i) == {j \in AudioStreams(e) : j < i}

C15_StreamSelection ==
    SelectionReached =>
        LET count == Cardinality(AudioStreams(env))
            fails == env.stream < 0 \/ count < env.stream + 1
        IN  /\ streams = count
            /\ (error = "NO_AUDIO") <=> fails
            /\ fails => audio_stream = -1
            /\ ~fails => /\ audio_stream + 1 \in AudioStreams(env)
                         /\ Cardinality(AudioBefore(env, audio_stream + 1))
                                = env.stream

\* The second stream of the container is selected as its first audio stream.
C15_Witness ==
    /\ SelectionReached
    /\ env.types = <<"video", "audio">>
    /\ env.stream = 0
    /\ audio_stream = 1
    /\ streams = 1

\* C16: buffer_len never decreases, and after a read() that returned n > 0
\* the buffer holds buffer_len samples, at least n, and buffer_len is the
\* largest sample count a read() of the session has returned.
C16_BufferGrowsOnly ==
    /\ [][buffer_len' >= buffer_len]_vars
    /\ []((pc = "idle" /\ op = "read" /\ ret > 0) =>
             /\ buffer_len >= ret
             /\ buffer_len = maxReturned
             /\ Len(buffer) = buffer_len)

\* A read() that returned a smaller frame than an earlier one.
C16_Witness ==
    /\ pc = "idle"
    /\ op = "read"
    /\ ret > 0
    /\ ret < buffer_len
    /\ maxReturned = MaxFrameSamples

\* C17: the destructor closes the codec and the container at most once each,
\* the codec before the container; it closes the codec only when the container
\* handle is open and an audio stream was selected, and the container only
\* when the handle is open, which it leaves null.
CallsOf(name, log) == {i \in DOMAIN log : log[i] = name}

C17_CloseOrder ==
    [][(pc' = "destroyed" /\ pc # "destroyed") =>
          LET codec == CallsOf("avcodec_close", closes')
              container == CallsOf("avformat_close_input", closes')
          IN  /\ Cardinality(codec) <= 1
              /\ Cardinality(container) <= 1
              /\ \A i \in codec, j \in container : i < j
              /\ codec # {} => (format_context # "NULL" /\ audio_stream >= 0)
              /\ container # {} => format_context # "NULL"
              /\ format_context' = "NULL"]_vars

\* A session with a decoded packet in flight was destroyed: the packet was
\* released, then the codec and the container were closed.
C17_Witness ==
    /\ pc = "destroyed"
    /\ closes = <<"av_packet_unref", "avcodec_close", "avformat_close_input">>

\* C18: a read() in progress returns, whatever the decoder reports on each
\* pass: an error, no bytes or some bytes consumed, a frame or none.
C18_ReadReturns ==
    (pc \in {"decode", "fetch"}) ~> (pc \in {"idle", "crashed"})

\* C19: a start() that gets to the stream access of line 263 finds the
\* container handle open and a stream selected, on every session open()
\* returns, the failed ones included.
C19_StartAccessValid ==
    (op = "start" /\ pc # "aborted") => StreamValid

\* C20: while a session lives, offset is the number of bytes the decoder has
\* consumed from the packet in flight, and offset plus the bytes left is the
\* size the packet was delivered with; every packet av_read_frame delivered,
\* but the one in flight, has been released, none twice and each with data,
\* size and offset as delivered; no packet is in flight when the next one is
\* fetched, and none is left after the destructor.
InFlight == IF packet.buf # 0 THEN {packet.buf} ELSE {}

C20_PacketAccounting ==
    pc \notin {"crashed", "aborted"} =>
        /\ offset = packet.off
        /\ offset + packet.size = packet.orig
        /\ ~released.bad
        /\ released.ids = (1 .. pos) \ InFlight
        /\ pc = "fetch" => InFlight = {}
        /\ pc = "destroyed" => (InFlight = {} /\ offset = 0)

\* A frame was returned from the second packet, of which the decoder has
\* consumed a part, after the first packet was released.
C20_Witness ==
    /\ pc = "idle"
    /\ op = "read"
    /\ ret > 0
    /\ offset > 0
    /\ packet.size > 0
    /\ packet.buf = 2
    /\ released.ids = {1}

====
